---- MODULE Spec2Model ----
(***************************************************************************)
(* Model of sync_appfolio_properties.py: one process that, run after run,  *)
(* fetches the AppFolio property list and the Supabase properties table    *)
(* and issues insert / reactivate / deactivate writes against the table.   *)
(*                                                                         *)
(* The Supabase table (store) and the AppFolio list (source) are the       *)
(* persistent environment; everything else is local to one run of          *)
(* sync_properties.  Every HTTP call may fail; a failed fetch ends the     *)
(* process, a failed write is counted.                                     *)
(***************************************************************************)
EXTENDS Integers, Sequences, FiniteSets, TLC

\* ------------------------------------------------------------------ bounds
MaxExt == 2        \* longest AppFolio result list
MaxRows == 2       \* largest table at which the roster is still seen to change

\* ------------------------------------------------------- values and inputs
\* Python None / JSON null, kept apart from every string the model uses.
PyNone == "<None>"

\* required_vars of sync_properties
RequiredVars ==
    {"APPFOLIO_CLIENT_ID", "APPFOLIO_CLIENT_SECRET", "SUPABASE_URL", "SUPABASE_SERVICE_KEY"}

\* Elements of data["results"]: dicts with or without each of the two keys.
\* Addresses are sequences of characters.
ExtRecords ==
    { [property_id |-> "A", property_address |-> <<"X", " ">>],
      [property_id |-> "A", property_address |-> <<>>],
      [property_id |-> "A"],
      [property_id |-> "B", property_address |-> <<"X", " ">>],
      [property_id |-> "B", property_address |-> <<" ">>],
      [property_id |-> "", property_address |-> <<"X", " ">>],
      [property_address |-> <<"X", " ">>] }

RECURSIVE SeqsUpTo(_, _)
SeqsUpTo(S, n) ==
    IF n = 0 THEN {<<>>}
    ELSE LET shorter == SeqsUpTo(S, n - 1)
         IN shorter \cup {Append(s, x) : s \in {t \in shorter : Len(t) = n - 1}, x \in S}

ExtLists == SeqsUpTo(ExtRecords, MaxExt)

\* ------------------------------------------------------ python primitives
\* dict.get(key, default)
Get(d, key, default) == IF key \in DOMAIN d THEN d[key] ELSE default

\* str(x) for x a str or None
Str(x) == IF x = PyNone THEN "None" ELSE x

IsSpace(c) == c = " "

RECURSIVE LStrip(_)
LStrip(s) == IF s # <<>> /\ IsSpace(Head(s)) THEN LStrip(Tail(s)) ELSE s

RECURSIVE RStrip(_)
RStrip(s) ==
    IF s # <<>> /\ IsSpace(s[Len(s)]) THEN RStrip(SubSeq(s, 1, Len(s) - 1)) ELSE s

\* str.strip()
Strip(s) == RStrip(LStrip(s))

\* truthiness of a str or None
Truthy(x) == x # PyNone /\ x # ""

\* ------------------------------------------- the dict supabase_properties
\* An insertion-ordered dict as a sequence of [key, val] entries with distinct keys.
DictKeys(d) == {d[k].key : k \in DOMAIN d}

DictHas(d, key) == key \in DictKeys(d)

DictGet(d, key) == d[CHOOSE k \in DOMAIN d : d[k].key = key].val

\* d[key] = val: a new key goes last, an existing key keeps its place
DictPut(d, key, val) ==
    IF DictHas(d, key)
    THEN [k \in DOMAIN d |-> IF d[k].key = key THEN [key |-> key, val |-> val] ELSE d[k]]
    ELSE Append(d, [key |-> key, val |-> val])

\* {p["appfolio_id"]: p for p in properties if p.get("appfolio_id")}
RECURSIVE IndexFrom(_, _, _)
IndexFrom(properties, k, d) ==
    IF k > Len(properties) THEN d
    ELSE IndexFrom(properties, k + 1,
                   IF Truthy(properties[k].appfolio_id)
                   THEN DictPut(d, properties[k].appfolio_id, properties[k])
                   ELSE d)

Indexed(properties) == IndexFrom(properties, 1, <<>>)

\* ----------------------------------------------------------------- state
VARIABLES
    store,                \* the Supabase properties table: a sequence of rows
    source,               \* the list AppFolio currently reports
    pc,                   \* where the process is
    missing,              \* sync_properties: missing
    appfolio_properties,  \* sync_properties: the fetched list
    supabase_properties,  \* sync_properties: the fetched index
    stats,                \* sync_properties: stats
    appfolio_ids,         \* sync_properties: appfolio_ids
    i,                    \* position of the first loop in appfolio_properties
    j,                    \* position of the second loop in supabase_properties
    exit_code,            \* the process's exit status, -1 while it runs
    ops,                  \* history: the write calls issued by this run, in order
    skipped,              \* history: positions of the source list the run skipped
    fetch_failed,         \* history: which fetch ended the run, if any
    store0,               \* history: the table when the run started
    prev,                 \* history: how the previous run ended
    prev_failed           \* history: the write calls of the previous run that failed

vars == <<store, source, pc, missing, appfolio_properties, supabase_properties,
          stats, appfolio_ids, i, j, exit_code, ops, skipped, fetch_failed,
          store0, prev, prev_failed>>

ZeroStats == [added |-> 0, reactivated |-> 0, deactivated |-> 0, unchanged |-> 0, errors |-> 0]

\* Rows of the table at the start: at most one row per appfolio_id, and
\* possibly one row that has none.
Row(id, address, active) == [address |-> address, appfolio_id |-> id, active |-> active]

InitRowChoices(id) ==
    {<<>>, <<Row(id, <<"Y">>, TRUE)>>, <<Row(id, <<"Y">>, FALSE)>>}

InitStores ==
    {a \o b \o n : a \in InitRowChoices("A"), b \in InitRowChoices("B"),
                   n \in {<<>>, <<Row(PyNone, <<"Z">>, TRUE)>>}}

Init ==
    /\ store \in InitStores
    /\ source \in ExtLists
    /\ pc = "idle"
    /\ missing = {}
    /\ appfolio_properties = <<>>
    /\ supabase_properties = <<>>
    /\ stats = ZeroStats
    /\ appfolio_ids = {}
    /\ i = 1
    /\ j = 1
    /\ exit_code = -1
    /\ ops = <<>>
    /\ skipped = {}
    /\ fetch_failed = "none"
    /\ store0 = store
    /\ prev = "none"
    /\ prev_failed = <<>>

\* ------------------------------------------------------------ the writes
\* A faulty insert_property: the payload says "active": False.
InsertedInactive(table, appfolio_id, address) ==
    Append(table, [address |-> address, appfolio_id |-> appfolio_id, active |-> FALSE])

\* insert_property's POST, when it succeeds
Inserted(table, appfolio_id, address) == Append(table, Row(appfolio_id, address, TRUE))

\* A faulty update_property_status: the PATCH goes out without its filter.
PatchedEveryRow(table, appfolio_id, active) ==
    [k \in DOMAIN table |-> [table[k] EXCEPT !.active = active]]

\* update_property_status's PATCH with appfolio_id=eq.<id>, when it succeeds
Patched(table, appfolio_id, active) ==
    [k \in DOMAIN table |->
        IF table[k].appfolio_id = appfolio_id
        THEN [table[k] EXCEPT !.active = active]
        ELSE table[k]]

Bump(st, field) == [st EXCEPT ![field] = @ + 1]

\* A faulty caller: a write that returned False is not counted.
CountedWhenOk(st, ok, field) == IF ok THEN [st EXCEPT ![field] = @ + 1] ELSE st

\* stats[field] += 1 when the write returned True, stats["errors"] += 1 otherwise
Counted(st, ok, field) == IF ok THEN Bump(st, field) ELSE Bump(st, "errors")

\* ------------------------------------------------- sync_properties' tests
\* missing = [var for var in required_vars if not os.environ.get(var)]
MissingVars(env) == {var \in RequiredVars : var \notin env}

\* appfolio_id = str(prop.get("property_id"))
IdOf(prop) == Str(Get(prop, "property_id", PyNone))

\* address = prop.get("property_address", "").strip()
AddressOf(prop) == Strip(Get(prop, "property_address", <<>>))

\* A faulty test: only the id is looked at.
IsSkippedOnId(appfolio_id, address) == appfolio_id = ""

\* if not appfolio_id or not address
IsSkipped(appfolio_id, address) == appfolio_id = "" \/ address = <<>>

\* A faulty test: the set of seen ids is not consulted.
IsGoneWhenActive(appfolio_id, prop, ids) == prop.active

\* if appfolio_id not in appfolio_ids and prop["active"]
IsGone(appfolio_id, prop, ids) == appfolio_id \notin ids /\ prop.active

\* A faulty ending: a single error is let through.
FinalCodeAboveOne(st) == IF st.errors > 1 THEN 1 ELSE 0

\* if stats["errors"] > 0: sys.exit(1)
FinalCode(st) == IF st.errors > 0 THEN 1 ELSE 0

\* the environments a run may start in: the set of variables that are set
Envs == {RequiredVars, {}} \cup {RequiredVars \ {var} : var \in RequiredVars}

\* what the run that just ended leaves for the next one to compare with
Outcome ==
    IF pc # "exited" THEN prev
    ELSE IF missing # {} \/ fetch_failed # "none" THEN "fatal"
    ELSE IF exit_code = 0 THEN "clean" ELSE "errors"

\* the write calls of the run that just ended that returned False
FailedOps ==
    IF pc = "exited" THEN SelectSeq(ops, LAMBDA c : ~c.ok) ELSE <<>>

Call(op, appfolio_id, active, ok) ==
    [op |-> op, id |-> appfolio_id, active |-> active, ok |-> ok]

\* --------------------------------------------------------------- actions
\* The process is started; sync_properties validates the environment.
StartRun ==
    /\ pc \in {"idle", "exited"}
    /\ \E env \in Envs :
        /\ missing' = MissingVars(env)
        /\ IF missing' # {}
           THEN pc' = "exited" /\ exit_code' = 1
           ELSE pc' = "fetch_appfolio" /\ exit_code' = -1
    /\ prev' = Outcome
    /\ prev_failed' = FailedOps
    /\ store0' = store
    /\ appfolio_properties' = <<>>
    /\ supabase_properties' = <<>>
    /\ stats' = ZeroStats
    /\ appfolio_ids' = {}
    /\ i' = 1
    /\ j' = 1
    /\ ops' = <<>>
    /\ skipped' = {}
    /\ fetch_failed' = "none"
    /\ UNCHANGED <<store, source>>

\* fetch_appfolio_properties
FetchAppfolio ==
    /\ pc = "fetch_appfolio"
    /\ \E ok \in BOOLEAN :
        IF ok
        THEN /\ appfolio_properties' = source
             /\ pc' = "fetch_supabase"
             /\ UNCHANGED <<exit_code, fetch_failed>>
        ELSE /\ pc' = "exited"
             /\ exit_code' = 1
             /\ fetch_failed' = "appfolio"
             /\ UNCHANGED appfolio_properties
    /\ UNCHANGED <<store, source, missing, supabase_properties, stats, appfolio_ids,
                   i, j, ops, skipped, store0, prev, prev_failed>>

\* A faulty fetch_supabase_properties: on a failed request it logs and returns
\* an empty index instead of ending the process.
FetchSupabaseReturnsEmpty ==
    /\ pc = "fetch_supabase"
    /\ \E ok \in BOOLEAN :
        /\ supabase_properties' = IF ok THEN Indexed(store) ELSE <<>>
        /\ fetch_failed' = IF ok THEN fetch_failed ELSE "supabase"
    /\ pc' = "loop1"
    /\ UNCHANGED <<store, source, missing, appfolio_properties, stats, appfolio_ids,
                   i, j, exit_code, ops, skipped, store0, prev, prev_failed>>

\* fetch_supabase_properties
FetchSupabase ==
    /\ pc = "fetch_supabase"
    /\ \E ok \in BOOLEAN :
        IF ok
        THEN /\ supabase_properties' = Indexed(store)
             /\ pc' = "loop1"
             /\ UNCHANGED <<exit_code, fetch_failed>>
        ELSE /\ pc' = "exited"
             /\ exit_code' = 1
             /\ fetch_failed' = "supabase"
             /\ UNCHANGED supabase_properties
    /\ UNCHANGED <<store, source, missing, appfolio_properties, stats, appfolio_ids,
                   i, j, ops, skipped, store0, prev, prev_failed>>

InLoop1 == pc = "loop1" /\ i <= Len(appfolio_properties)

\* for prop in appfolio_properties: ... continue
SkipRecord ==
    /\ InLoop1
    /\ IsSkipped(IdOf(appfolio_properties[i]), AddressOf(appfolio_properties[i]))
    /\ skipped' = skipped \cup {i}
    /\ i' = i + 1
    /\ UNCHANGED <<store, source, pc, missing, appfolio_properties, supabase_properties,
                   stats, appfolio_ids, j, exit_code, ops, fetch_failed, store0, prev, prev_failed>>

\* the property exists in Supabase and is not active
Reactivate ==
    /\ InLoop1
    /\ LET appfolio_id == IdOf(appfolio_properties[i])
           address == AddressOf(appfolio_properties[i])
       IN /\ ~IsSkipped(appfolio_id, address)
          /\ DictHas(supabase_properties, appfolio_id)
          /\ ~DictGet(supabase_properties, appfolio_id).active
          /\ appfolio_ids' = appfolio_ids \cup {appfolio_id}
          /\ \E ok \in BOOLEAN :
               /\ store' = IF ok THEN Patched(store, appfolio_id, TRUE) ELSE store
               /\ stats' = Counted(stats, ok, "reactivated")
               /\ ops' = Append(ops, Call("SetActive", appfolio_id, TRUE, ok))
    /\ i' = i + 1
    /\ UNCHANGED <<source, pc, missing, appfolio_properties, supabase_properties,
                   j, exit_code, skipped, fetch_failed, store0, prev, prev_failed>>

\* the property exists in Supabase and is active
Unchanged ==
    /\ InLoop1
    /\ LET appfolio_id == IdOf(appfolio_properties[i])
           address == AddressOf(appfolio_properties[i])
       IN /\ ~IsSkipped(appfolio_id, address)
          /\ DictHas(supabase_properties, appfolio_id)
          /\ DictGet(supabase_properties, appfolio_id).active
          /\ appfolio_ids' = appfolio_ids \cup {appfolio_id}
          /\ stats' = Bump(stats, "unchanged")
    /\ i' = i + 1
    /\ UNCHANGED <<store, source, pc, missing, appfolio_properties, supabase_properties,
                   j, exit_code, ops, skipped, fetch_failed, store0, prev, prev_failed>>

\* the property is not in Supabase
Insert ==
    /\ InLoop1
    /\ LET appfolio_id == IdOf(appfolio_properties[i])
           address == AddressOf(appfolio_properties[i])
       IN /\ ~IsSkipped(appfolio_id, address)
          /\ ~DictHas(supabase_properties, appfolio_id)
          /\ appfolio_ids' = appfolio_ids \cup {appfolio_id}
          /\ \E ok \in BOOLEAN :
               /\ store' = IF ok THEN Inserted(store, appfolio_id, address) ELSE store
               /\ stats' = Counted(stats, ok, "added")
               /\ ops' = Append(ops, Call("Insert", appfolio_id, TRUE, ok))
    /\ i' = i + 1
    /\ UNCHANGED <<source, pc, missing, appfolio_properties, supabase_properties,
                   j, exit_code, skipped, fetch_failed, store0, prev, prev_failed>>

\* the first loop is exhausted
EndLoop1 ==
    /\ pc = "loop1"
    /\ i > Len(appfolio_properties)
    /\ pc' = "loop2"
    /\ UNCHANGED <<store, source, missing, appfolio_properties, supabase_properties,
                   stats, appfolio_ids, i, j, exit_code, ops, skipped, fetch_failed,
                   store0, prev, prev_failed>>

\* A faulty layout: the second loop is nested in the first.
InLoop2Nested == pc \in {"loop1", "loop2"} /\ j <= Len(supabase_properties)

InLoop2 == pc = "loop2" /\ j <= Len(supabase_properties)

\* for appfolio_id, prop in supabase_properties.items(): the row is deactivated
Deactivate ==
    /\ InLoop2
    /\ LET appfolio_id == supabase_properties[j].key
           prop == supabase_properties[j].val
       IN /\ IsGone(appfolio_id, prop, appfolio_ids)
          /\ \E ok \in BOOLEAN :
               /\ store' = IF ok THEN Patched(store, appfolio_id, FALSE) ELSE store
               /\ stats' = Counted(stats, ok, "deactivated")
               /\ ops' = Append(ops, Call("SetActive", appfolio_id, FALSE, ok))
    /\ j' = j + 1
    /\ UNCHANGED <<source, pc, missing, appfolio_properties, supabase_properties,
                   appfolio_ids, i, exit_code, skipped, fetch_failed, store0, prev, prev_failed>>

\* ... the row is left alone
KeepRow ==
    /\ InLoop2
    /\ ~IsGone(supabase_properties[j].key, supabase_properties[j].val, appfolio_ids)
    /\ j' = j + 1
    /\ UNCHANGED <<store, source, pc, missing, appfolio_properties, supabase_properties,
                   stats, appfolio_ids, i, exit_code, ops, skipped, fetch_failed,
                   store0, prev, prev_failed>>

\* the summary is printed and the process ends
Finish ==
    /\ pc = "loop2"
    /\ j > Len(supabase_properties)
    /\ pc' = "exited"
    /\ exit_code' = FinalCode(stats)
    /\ UNCHANGED <<store, source, missing, appfolio_properties, supabase_properties,
                   stats, appfolio_ids, i, j, ops, skipped, fetch_failed, store0, prev, prev_failed>>

\* s without its k-th element
Without(s, k) == SubSeq(s, 1, k - 1) \o SubSeq(s, k + 1, Len(s))

\* the rosters one change away: a property appears, or one disappears
Edits(list) ==
    {Append(list, r) : r \in {x \in ExtRecords : Len(list) < MaxExt}}
        \cup {Without(list, k) : k \in DOMAIN list}

\* AppFolio's roster changes between two runs
SourceChange ==
    /\ pc \in {"idle", "exited"}
    /\ Len(store) <= MaxRows
    /\ source' \in Edits(source)
    /\ pc' = "idle"
    /\ prev' = "none"
    /\ prev_failed' = <<>>
    /\ store0' = store
    /\ missing' = {}
    /\ appfolio_properties' = <<>>
    /\ supabase_properties' = <<>>
    /\ stats' = ZeroStats
    /\ appfolio_ids' = {}
    /\ i' = 1
    /\ j' = 1
    /\ exit_code' = -1
    /\ ops' = <<>>
    /\ skipped' = {}
    /\ fetch_failed' = "none"
    /\ UNCHANGED store

Next ==
    \/ StartRun
    \/ FetchAppfolio
    \/ FetchSupabase
    \/ SkipRecord
    \/ Reactivate
    \/ Unchanged
    \/ Insert
    \/ EndLoop1
    \/ Deactivate
    \/ KeepRow
    \/ Finish

Spec == Init /\ [][Next]_vars

\* The same process while the roster changes between its runs.
NextRoster ==
    \/ Next
    \/ SourceChange

SpecRoster == Init /\ [][NextRoster]_vars

\* ------------------------------------------------- vocabulary of the claims
\* A record carries an id: the key is there and its value is not empty.
HasId(prop) == "property_id" \in DOMAIN prop /\ prop.property_id # ""

\* A record carries a name: the key is there and its value is not blank.
HasName(prop) == "property_address" \in DOMAIN prop /\ Strip(prop.property_address) # <<>>

\* A valid external record: non-empty id and non-empty name.
ValidRecord(prop) == HasId(prop) /\ HasName(prop)

\* S: the ids of the valid external records of a list
ValidIds(list) == {list[k].property_id : k \in {n \in DOMAIN list : ValidRecord(list[n])}}

\* The run went through both fetches, both loops and the summary.
Completed == pc = "exited" /\ missing = {} /\ fetch_failed = "none"

\* The write calls of this run, by kind and target.
Inserts(id) == {k \in DOMAIN ops : ops[k].op = "Insert" /\ ops[k].id = id}

Reactivates(id) ==
    {k \in DOMAIN ops : ops[k].op = "SetActive" /\ ops[k].active /\ ops[k].id = id}

Deactivates(id) ==
    {k \in DOMAIN ops : ops[k].op = "SetActive" /\ ~ops[k].active /\ ops[k].id = id}

FailedCalls == {k \in DOMAIN ops : ~ops[k].ok}

\* ---------------------------------------------------------------- claims

\* C1: after a run in which both fetches and every write succeeded, a row of
\* the table that has an external id is active exactly when its id is in S,
\* and every row the run inserted is active.
C1_StoreReflectsValidIds ==
    (Completed /\ FailedCalls = {}) =>
        /\ \A k \in DOMAIN store :
             Truthy(store[k].appfolio_id) =>
                (store[k].active <=> store[k].appfolio_id \in ValidIds(appfolio_properties))
        /\ \A k \in (Len(store0) + 1)..Len(store) : store[k].active

\* C2: an id of S that is not in the store mapping gets exactly one Insert in
\* a run, however many records of the list carry it.
C2_ExactlyOneInsert ==
    Completed =>
        \A id \in ValidIds(appfolio_properties) :
            ~DictHas(supabase_properties, id) => Cardinality(Inserts(id)) = 1

\* C3: an inactive row of the store mapping whose id is in S gets exactly one
\* Reactivate in a run, for any external list.
C3_ExactlyOneReactivate ==
    Completed =>
        \A id \in ValidIds(appfolio_properties) :
            (DictHas(supabase_properties, id) /\ ~DictGet(supabase_properties, id).active)
                => Cardinality(Reactivates(id)) = 1

\* C4: an active row of the store mapping whose id is not in S gets exactly
\* one Deactivate in a run, and a row whose id is in S gets none.
C4_ExactlyOneDeactivate ==
    Completed =>
        \A k \in DOMAIN supabase_properties :
            LET id == supabase_properties[k].key
                prop == supabase_properties[k].val
            IN /\ (prop.active /\ id \notin ValidIds(appfolio_properties))
                     => Cardinality(Deactivates(id)) = 1
               /\ id \in ValidIds(appfolio_properties) => Deactivates(id) = {}

\* The second of two runs issued no write and counted every record it did not
\* skip, every valid record among them, as unchanged.
NothingToDo ==
    /\ ops = <<>>
    /\ stats = [ZeroStats EXCEPT !.unchanged = Len(appfolio_properties) - Cardinality(skipped)]
    /\ \A k \in DOMAIN appfolio_properties :
         ValidRecord(appfolio_properties[k]) => k \notin skipped

\* C5 as stated: the second of two runs in a row over the same external list
\* issues no write and counts every valid record as unchanged.
C5_SecondRunIdle == (Completed /\ prev \in {"clean", "errors"}) => NothingToDo

\* C5 amended: the second of two runs in a row over the same external list
\* issues no write and counts every valid record as unchanged, when the first
\* run ended with no write error.
C5_SecondRunIdleAfterCleanRun == (Completed /\ prev = "clean") => NothingToDo

C5_Witness ==
    /\ Completed
    /\ prev = "clean"
    /\ NothingToDo
    /\ stats.unchanged = 2
    /\ \E k \in DOMAIN store : store[k].address = <<"X">>
    /\ \E k \in DOMAIN store : ~store[k].active /\ Truthy(store[k].appfolio_id)

C7_FatalRunWritesNothing ==
    (pc = "exited" /\ (missing # {} \/ fetch_failed # "none")) =>
        /\ exit_code = 1
        /\ ops = <<>>
        /\ store = store0

C7_Witness ==
    /\ pc = "exited"
    /\ fetch_failed = "supabase"
    /\ ValidIds(appfolio_properties) # {}
    /\ \E k \in DOMAIN store : store[k].active /\ Truthy(store[k].appfolio_id)

\* The write calls the two fetched datasets determine, in order: one per
\* record of the list that is not skipped and is not an active row of the
\* mapping, then one per active row of the mapping no such record names.
RECURSIVE DiffLoop1(_, _, _)
DiffLoop1(list, d, k) ==
    IF k > Len(list) THEN <<>>
    ELSE LET id == IdOf(list[k])
             rest == DiffLoop1(list, d, k + 1)
         IN IF IsSkipped(id, AddressOf(list[k])) THEN rest
            ELSE IF ~DictHas(d, id) THEN <<[op |-> "Insert", id |-> id, active |-> TRUE]>> \o rest
            ELSE IF ~DictGet(d, id).active
                 THEN <<[op |-> "SetActive", id |-> id, active |-> TRUE]>> \o rest
            ELSE rest

SeenIds(list) ==
    {IdOf(list[k]) : k \in {n \in DOMAIN list : ~IsSkipped(IdOf(list[n]), AddressOf(list[n]))}}

RECURSIVE DiffLoop2(_, _, _)
DiffLoop2(list, d, k) ==
    IF k > Len(d) THEN <<>>
    ELSE LET rest == DiffLoop2(list, d, k + 1)
         IN IF d[k].val.active /\ d[k].key \notin SeenIds(list)
            THEN <<[op |-> "SetActive", id |-> d[k].key, active |-> FALSE]>> \o rest
            ELSE rest

Diff(list, d) == DiffLoop1(list, d, 1) \o DiffLoop2(list, d, 1)

Issued == [k \in DOMAIN ops |-> [op |-> ops[k].op, id |-> ops[k].id, active |-> ops[k].active]]

\* C8: whatever write calls fail, a run that passed both fetches issues every
\* operation of the diff, and its errors counter is the number of calls that
\* failed.
C8_FailuresDoNotAbort ==
    Completed =>
        /\ Issued = Diff(appfolio_properties, supabase_properties)
        /\ stats.errors = Cardinality(FailedCalls)

C8_Witness ==
    /\ Completed
    /\ Len(ops) = 3
    /\ ~ops[1].ok
    /\ ops[3].ok
    /\ stats.errors = 2

\* A record that carries an id and an empty name.
NamelessRecord(prop) == HasId(prop) /\ ~HasName(prop)

\* C9 as stated: when a record of the list has an empty name and its id is an
\* active row of the store mapping, the run issues a Deactivate for that id.
C9_EmptyNameDeactivates ==
    Completed =>
        \A k \in DOMAIN appfolio_properties :
            LET prop == appfolio_properties[k]
            IN (/\ NamelessRecord(prop)
                /\ DictHas(supabase_properties, prop.property_id)
                /\ DictGet(supabase_properties, prop.property_id).active)
                   => Deactivates(prop.property_id) # {}

\* C9 amended: when a record of the list has an empty name, its id is an
\* active row of the store mapping and no other record puts that id in S, the
\* run issues a Deactivate for that id.
C9_EmptyNameDeactivatesUnlessValidElsewhere ==
    Completed =>
        \A k \in DOMAIN appfolio_properties :
            LET prop == appfolio_properties[k]
            IN (/\ NamelessRecord(prop)
                /\ DictHas(supabase_properties, prop.property_id)
                /\ DictGet(supabase_properties, prop.property_id).active
                /\ prop.property_id \notin ValidIds(appfolio_properties))
                   => Deactivates(prop.property_id) # {}

C9_Witness ==
    /\ Completed
    /\ Len(appfolio_properties) = 2
    /\ NamelessRecord(appfolio_properties[1])
    /\ ValidRecord(appfolio_properties[2])
    /\ Deactivates(appfolio_properties[1].property_id) # {}

\* C10: a record whose id is empty or missing, or whose name is empty, is
\* skipped: it puts no id in the set of seen ids and causes no write call.
C10_InvalidRecordSkipped ==
    /\ \A k \in 1..(i - 1) :
         (k \in DOMAIN appfolio_properties /\ ~ValidRecord(appfolio_properties[k]))
            => k \in skipped
    /\ appfolio_ids \subseteq ValidIds(appfolio_properties)
    /\ \A k \in DOMAIN ops :
         ops[k].op = "Insert" \/ ops[k].active => ops[k].id \in ValidIds(appfolio_properties)

\* C11: a row of the store mapping that is inactive and whose id is not in S
\* is the target of no write call of the run, failed or not: it is neither
\* deactivated again nor reactivated.
C11_InactiveAbsentRowUntouched ==
    \A k \in DOMAIN supabase_properties :
        LET id == supabase_properties[k].key
            prop == supabase_properties[k].val
        IN (~prop.active /\ id \notin ValidIds(appfolio_properties))
              => \A n \in DOMAIN ops : ops[n].id # id

\* C12: during a run the rows the table had at its start keep their address
\* and their external id, whatever name the roster gives; a row changes its
\* active flag only through a SetActive call that succeeded for its id; a row
\* without external id is not in the mapping, changes in nothing and is the
\* target of no call.
C12_Frame ==
    /\ Len(store) >= Len(store0)
    /\ \A k \in DOMAIN store0 :
         /\ store[k].address = store0[k].address
         /\ store[k].appfolio_id = store0[k].appfolio_id
         /\ store[k].active # store0[k].active =>
              \E n \in DOMAIN ops :
                  /\ ops[n].op = "SetActive"
                  /\ ops[n].ok
                  /\ ops[n].id = store0[k].appfolio_id
                  /\ ops[n].active = store[k].active
         /\ ~Truthy(store0[k].appfolio_id) => store[k] = store0[k]
    /\ \A k \in DOMAIN supabase_properties : Truthy(supabase_properties[k].key)
    /\ \A n \in DOMAIN ops : Truthy(ops[n].id)

C12_Witness ==
    /\ Completed
    /\ \E k \in DOMAIN store0 : ~Truthy(store0[k].appfolio_id) /\ store0[k].active
    /\ \E k \in DOMAIN store0, n \in DOMAIN appfolio_properties :
         /\ ValidRecord(appfolio_properties[n])
         /\ appfolio_properties[n].property_id = store0[k].appfolio_id
         /\ AddressOf(appfolio_properties[n]) # store0[k].address
         /\ ~store0[k].active
         /\ store[k].active
    /\ \E k \in DOMAIN store0 : store0[k].active /\ ~store[k].active

IsDeactivate(c) == c.op = "SetActive" /\ ~c.active

\* C13: no write call is issued before both fetches have returned; no
\* Insert or Reactivate follows a Deactivate; and the calls issued so far
\* are, in order, the first calls of the diff, which lists the Inserts and
\* Reactivates in roster order and then the Deactivates in mapping order.
C13_WriteOrder ==
    /\ pc \in {"idle", "fetch_appfolio", "fetch_supabase"} => ops = <<>>
    /\ pc = "loop1" => \A k \in DOMAIN ops : ~IsDeactivate(ops[k])
    /\ \A k, l \in DOMAIN ops : (k < l /\ IsDeactivate(ops[k])) => IsDeactivate(ops[l])
    /\ Len(ops) <= Len(Diff(appfolio_properties, supabase_properties))
    /\ Issued = SubSeq(Diff(appfolio_properties, supabase_properties), 1, Len(ops))

C13_Witness ==
    /\ Completed
    /\ Len(ops) = 3
    /\ ops[1].op = "SetActive" /\ ops[1].active
    /\ ops[2].op = "Insert"
    /\ IsDeactivate(ops[3])

\* The kinds of operation a run has aimed at an id so far.
KindsAt(id) ==
    {kind \in {"Insert", "Reactivate", "Deactivate"} :
        \/ kind = "Insert" /\ Inserts(id) # {}
        \/ kind = "Reactivate" /\ Reactivates(id) # {}
        \/ kind = "Deactivate" /\ Deactivates(id) # {}}

\* The ids the first loop has counted as unchanged so far.
UnchangedIds ==
    {IdOf(appfolio_properties[k]) :
        k \in {n \in DOMAIN appfolio_properties :
                 /\ n < i
                 /\ n \notin skipped
                 /\ DictHas(supabase_properties, IdOf(appfolio_properties[n]))
                 /\ DictGet(supabase_properties, IdOf(appfolio_properties[n])).active}}

\* C14: within a run no id is the target of more than one kind of operation
\* (Insert, Reactivate, Deactivate), and an id counted as unchanged is the
\* target of none.
C14_DisjointOperations ==
    /\ \A n \in DOMAIN ops : Cardinality(KindsAt(ops[n].id)) = 1
    /\ \A id \in UnchangedIds : KindsAt(id) = {}

C14_Witness ==
    /\ Completed
    /\ stats.unchanged = 1
    /\ UnchangedIds # {}
    /\ \E n \in DOMAIN ops : ops[n].op = "Insert"
    /\ \E n \in DOMAIN ops : IsDeactivate(ops[n])

\* C15: the table holds at most one row per non-null external id, after any
\* runs over any roster and any pattern of write failures.
C15_OneRowPerExternalId ==
    \A k, l \in DOMAIN store :
        (k # l /\ Truthy(store[k].appfolio_id)) => store[k].appfolio_id # store[l].appfolio_id

\* C16: once a write call for an id has failed, the run issues no further
\* write call for that id, and the failure is one error in the statistics.
C16_NoSecondCallAfterFailure ==
    /\ \A k, l \in DOMAIN ops : (k < l /\ ~ops[k].ok) => ops[l].id # ops[k].id
    /\ stats.errors = Cardinality(FailedCalls)

\* The calls of the first loop that failed, and those of the second.
FailedUpserts == {k \in FailedCalls : ~IsDeactivate(ops[k])}

FailedDeactivates == {k \in FailedCalls : IsDeactivate(ops[k])}

\* C17: at the end of a run, added + reactivated + unchanged + the errors of
\* Inserts and Reactivates is the number of valid external records;
\* deactivated + the errors of Deactivates is the number of active rows of
\* the mapping whose id is not in S; and added + reactivated + deactivated +
\* errors is the number of write calls issued.
C17_StatisticsAccount ==
    Completed =>
        /\ stats.added + stats.reactivated + stats.unchanged + Cardinality(FailedUpserts)
             = Cardinality({k \in DOMAIN appfolio_properties :
                               ValidRecord(appfolio_properties[k])})
        /\ stats.deactivated + Cardinality(FailedDeactivates)
             = Cardinality({k \in DOMAIN supabase_properties :
                               /\ supabase_properties[k].val.active
                               /\ supabase_properties[k].key
                                    \notin ValidIds(appfolio_properties)})
        /\ stats.added + stats.reactivated + stats.deactivated + stats.errors = Len(ops)

\* C18: a run that follows a run with write errors over the same roster
\* issues exactly the calls that failed in that run, and no others.
C18_NextRunRepeatsFailedCalls ==
    (Completed /\ prev = "errors") =>
        Issued = [k \in DOMAIN prev_failed |->
                    [op |-> prev_failed[k].op, id |-> prev_failed[k].id,
                     active |-> prev_failed[k].active]]

====
